---------------------------- MODULE Spec2Model ----------------------------
(***************************************************************************)
(* SchemeMitra (src/app.py): the match scorer, the filter engine and the   *)
(* explanation generator.                                                  *)
(*                                                                         *)
(* Texts are TLA+ strings, read character by character with SubSeq, so     *)
(* that str.lower(), str.strip() and the `in` substring test are computed  *)
(* as Python computes them on ASCII text.                                  *)
(***************************************************************************)
EXTENDS Integers, Sequences, FiniteSets, TLC

VARIABLES
    pc,             \* which operation of the run has returned
    scheme,         \* the scheme record passed to the scorer / explainer
    user_profile,   \* the profile text passed with it
    match_score,    \* what calculate_match_score returned (None before)
    other_scheme,   \* arguments of a second, independent scoring call
    other_profile,
    other_score,    \* what that second call returned (None before)
    schemes,        \* the list passed to filter_schemes
    search_query,   \* the four criteria passed with it
    ministry_filter,
    beneficiary_filter,
    category_filter,
    filtered,       \* what filter_schemes returned (None before)
    refiltered,     \* what filter_schemes returned for its own result
    AZURE_OPENAI_API_KEY,   \* the credentials, read from the environment
    AZURE_OPENAI_ENDPOINT,  \*   when the module is loaded
    calls,          \* invocations of generate_eligibility_explanation so far
    outbox,         \* the requests posted to the text-generation service
    response,       \* what the network did with the last request posted
    explanation,    \* the text generate_eligibility_explanation returned
    schemes_json,   \* what the file schemes.json holds when it is opened
    SCHEMES,        \* the catalog load_schemes returned (None before)
    reported,       \* whether st.error has shown a message
    raised,         \* the exception that left the last operation (None if none)
    elapsed,        \* seconds the posted request has waited for the service
    session_state,  \* st.session_state of each browser session
    widgets,        \* the values the widgets of each session hold
    run,            \* what the last run of the script did, for each session
    actor,          \* the session whose script ran last (None before)
    interactions    \* user interactions served so far

scoreVars == <<scheme, user_profile, match_score,
               other_scheme, other_profile, other_score>>

filterVars == <<schemes, search_query, ministry_filter, beneficiary_filter,
                category_filter, filtered, refiltered>>

explainVars == <<AZURE_OPENAI_API_KEY, AZURE_OPENAI_ENDPOINT, calls, outbox,
                 response, explanation>>

loadVars == <<schemes_json, SCHEMES, reported, raised>>

waitVars == <<elapsed>>

appVars == <<session_state, widgets, run, actor, interactions>>

laterVars == <<loadVars, waitVars, appVars>>

vars == <<pc, scoreVars, filterVars, explainVars, laterVars>>

None == "None"

\* The value of response while no request has been posted.
NoBody == [shape |-> "none", content |-> None]
NoRequest == [kind |-> "None", status |-> 0, body |-> NoBody]

\* The values of the variables no operation of a run has touched.
IdleLoad ==
    /\ schemes_json = None
    /\ SCHEMES = None
    /\ reported = FALSE
    /\ raised = None

IdleWait == elapsed = 0

IdleApp ==
    /\ session_state = None
    /\ widgets = None
    /\ run = None
    /\ actor = None
    /\ interactions = 0

IdleLater == IdleLoad /\ IdleWait /\ IdleApp

IdleScore ==
    /\ scheme = None
    /\ user_profile = None
    /\ match_score = None
    /\ other_scheme = None
    /\ other_profile = None
    /\ other_score = None

IdleFilter ==
    /\ schemes = <<>>
    /\ search_query = ""
    /\ ministry_filter = "All Ministries"
    /\ beneficiary_filter = "All Types"
    /\ category_filter = "All Categories"
    /\ filtered = None
    /\ refiltered = None

IdleExplain ==
    /\ AZURE_OPENAI_API_KEY = None
    /\ AZURE_OPENAI_ENDPOINT = None
    /\ calls = 0
    /\ outbox = <<>>
    /\ response = NoRequest
    /\ explanation = None

(***************************************************************************)
(* Bounds of the model.                                                    *)
(***************************************************************************)
MaxWords == 2       \* words in a generated phrase (names, skills)
MaxFlip == 3        \* positions of a text whose letter case is flipped alone
MaxSchemes == 3     \* records in a catalog passed to filter_schemes
MaxCalls == 2       \* invocations of generate_eligibility_explanation in a run
MaxWait == 12       \* seconds of waiting the model follows a posted request for
MaxInteractions == 2    \* user interactions served in a run of the application

(***************************************************************************)
(* Python str primitives on ASCII text.                                    *)
(***************************************************************************)
UpperAlpha == "ABCDEFGHIJKLMNOPQRSTUVWXYZ"
LowerAlpha == "abcdefghijklmnopqrstuvwxyz"

Char(s, i) == SubSeq(s, i, i)

IndexIn(alpha, c) == CHOOSE i \in 1..Len(alpha) : Char(alpha, i) = c

UpperLetters == {Char(UpperAlpha, i) : i \in 1..Len(UpperAlpha)}
LowerLetters == {Char(LowerAlpha, i) : i \in 1..Len(LowerAlpha)}

\* The lower-case letter of each upper-case letter, and the reverse.
ToLower == [c \in UpperLetters |-> Char(LowerAlpha, IndexIn(UpperAlpha, c))]
ToUpper == [c \in LowerLetters |-> Char(UpperAlpha, IndexIn(LowerAlpha, c))]

\* str.lower() of one character: an upper-case letter becomes its lower-case
\* letter, every other character is kept.
LowerChar(c) == IF c \in UpperLetters THEN ToLower[c] ELSE c

UpperChar(c) == IF c \in LowerLetters THEN ToUpper[c] ELSE c

SwapChar(c) == IF c \in UpperLetters THEN ToLower[c] ELSE UpperChar(c)

\* s.lower(), character by character (halving keeps the evaluation shallow).
RECURSIVE Lower(_)
Lower(s) ==
    IF Len(s) = 0 THEN ""
    ELSE IF Len(s) = 1 THEN LowerChar(s)
    ELSE LET h == Len(s) \div 2
         IN  Lower(SubSeq(s, 1, h)) \o Lower(SubSeq(s, h + 1, Len(s)))

RECURSIVE Upper(_)
Upper(s) ==
    IF Len(s) = 0 THEN ""
    ELSE IF Len(s) = 1 THEN UpperChar(s)
    ELSE LET h == Len(s) \div 2
         IN  Upper(SubSeq(s, 1, h)) \o Upper(SubSeq(s, h + 1, Len(s)))

RECURSIVE SwapCase(_)
SwapCase(s) ==
    IF Len(s) = 0 THEN ""
    ELSE IF Len(s) = 1 THEN SwapChar(s)
    ELSE LET h == Len(s) \div 2
         IN  SwapCase(SubSeq(s, 1, h)) \o SwapCase(SubSeq(s, h + 1, Len(s)))

\* s with the letter case of its i-th character changed.
FlipAt(s, i) ==
    IF i \in 1..Len(s)
    THEN SubSeq(s, 1, i - 1) \o SwapChar(Char(s, i)) \o SubSeq(s, i + 1, Len(s))
    ELSE s

\* `k in t` for Python strings: k occurs in t as a contiguous substring.
Contains(t, k) ==
    \E i \in 1..(Len(t) - Len(k) + 1) : SubSeq(t, i, i + Len(k) - 1) = k

Min(a, b) == IF a <= b THEN a ELSE b

(***************************************************************************)
(* calculate_match_score (src/app.py 201-217).                             *)
(***************************************************************************)
keywords ==
    << "farmer", "women", "youth", "student", "senior", "elder", "msme",
       "business", "entrepreneur", "girl", "female", "young", "old", "small",
       "enterprise" >>

base_score == 50
PointsPerMatch == 5
ScoreCap == 95

\* f"{scheme['name']} {scheme['beneficiary']} {scheme['category']}".lower()
\* Mutant: the benefit and the description are part of the scheme text.
scheme_text_more_fields(s) ==
    Lower(s.name \o " " \o s.beneficiary \o " " \o s.category \o " "
            \o s.benefit \o " " \o s.description)

scheme_text(s) == Lower(s.name \o " " \o s.beneficiary \o " " \o s.category)

profile_text(p) == Lower(p)

\* sum(1 for keyword in keywords[i..] if keyword in scheme_text
\*                                     and keyword in profile_text)
RECURSIVE matches(_, _, _)
matches(st, pt, i) ==
    IF i > Len(keywords) THEN 0
    ELSE (IF Contains(st, keywords[i]) /\ Contains(pt, keywords[i]) THEN 1 ELSE 0)
         + matches(st, pt, i + 1)

\* Mutants of calculate_match_score.
calculate_match_score_uncapped(s, p) ==
    base_score + matches(scheme_text(s), profile_text(p), 1) * PointsPerMatch

calculate_match_score_either(s, p) ==
    LET st == scheme_text(s)
        pt == profile_text(p)
        n  == Cardinality({i \in 1..Len(keywords) :
                             Contains(st, keywords[i]) \/ Contains(pt, keywords[i])})
    IN  Min(ScoreCap, base_score + n * PointsPerMatch)

calculate_match_score_cased(s, p) ==
    Min(ScoreCap,
        base_score
          + matches(s.name \o " " \o s.beneficiary \o " " \o s.category,
                    profile_text(p), 1) * PointsPerMatch)

\* k is one of the words of t, the words being what single spaces separate.
IsWordOf(t, k) ==
    \E i \in 1..(Len(t) - Len(k) + 1) :
        /\ SubSeq(t, i, i + Len(k) - 1) = k
        /\ i = 1 \/ Char(t, i - 1) = " "
        /\ i + Len(k) - 1 = Len(t) \/ Char(t, i + Len(k)) = " "

\* Mutant: a keyword counts only as a whole word of the scheme text.
RECURSIVE word_matches(_, _, _)
word_matches(st, pt, i) ==
    IF i > Len(keywords) THEN 0
    ELSE (IF IsWordOf(st, keywords[i]) /\ Contains(pt, keywords[i]) THEN 1 ELSE 0)
         + word_matches(st, pt, i + 1)

calculate_match_score_whole_words(s, p) ==
    Min(ScoreCap, base_score + word_matches(scheme_text(s), profile_text(p), 1) * PointsPerMatch)

calculate_match_score(s, p) ==
    LET additional_score == matches(scheme_text(s), profile_text(p), 1) * PointsPerMatch
    IN  Min(ScoreCap, base_score + additional_score)


(***************************************************************************)
(* Scheme records (fields of a schemes.json entry) and CATEGORY_NAMES      *)
(* (src/app.py 78-87).                                                     *)
(***************************************************************************)
CATEGORY_NAMES ==
    << "Farmers", "Women", "Youth", "MSME", "Education", "Senior Citizens" >>

Scheme(id, name, ministry, beneficiary, benefit, category, description) ==
    [ id |-> id, name |-> name, ministry |-> ministry,
      beneficiary |-> beneficiary, benefit |-> benefit, category |-> category,
      description |-> description, source_url |-> "https://india.gov.in" ]

(***************************************************************************)
(* Inputs of the scorer.                                                   *)
(***************************************************************************)
JoinWords(p, w) == IF p = "" THEN w ELSE p \o " " \o w

\* The texts of at most n of the given words, separated by single spaces.
RECURSIVE Phrases(_, _)
Phrases(words, n) ==
    IF n = 0 THEN {""}
    ELSE LET shorter == Phrases(words, n - 1)
         IN  shorter \cup {JoinWords(p, w) : p \in shorter, w \in words}

\* The first n keywords of the vocabulary, separated by single spaces.
RECURSIVE KeywordPrefix(_)
KeywordPrefix(n) ==
    IF n = 0 THEN "" ELSE JoinWords(KeywordPrefix(n - 1), keywords[n])

ManyKeywords == {KeywordPrefix(n) : n \in {9, 10}}

ScoreNames == Phrases({"Kisan Samman", "WOMEN household"}, MaxWords) \cup ManyKeywords
ScoreBeneficiaries == {"farmer", "Small Business"}
ScoreCategories == {"Farmers", "Senior Citizens"}

ScoreSchemes ==
    { Scheme(1, n, "Ministry of Agriculture", b, "Rs 6000 per year", c, "Income support")
        : n \in ScoreNames, b \in ScoreBeneficiaries, c \in ScoreCategories }

\* user_profile as main() assembles it (src/app.py 1348-1350).
BuildProfile(age, category, skills) ==
    LET head == age \o " years old, " \o category \o " category"
    IN  IF skills # "" THEN head \o ", skills: " \o skills ELSE head

ScoreProfiles ==
    { BuildProfile("35", c, k)
        : c \in {"Women"}, k \in Phrases({"farmer", "YOUNG"}, MaxWords) }
    \cup {"", "General user", "35 years old farmer"}
    \cup {KeywordPrefix(n) : n \in {10, Len(keywords)}}

\* The texts that differ from s only in the letter case of some characters.
CaseVariants(s) ==
    {Upper(s), Lower(s), SwapCase(s)} \cup {FlipAt(s, i) : i \in 1..Min(MaxFlip, Len(s))}

\* The scheme records that differ from s only in the letter case of the
\* three fields the scorer reads.
SchemeCaseVariants(s) ==
    { [s EXCEPT !.name = Upper(s.name), !.beneficiary = Upper(s.beneficiary),
                !.category = Upper(s.category)],
      [s EXCEPT !.name = Lower(s.name), !.beneficiary = Lower(s.beneficiary),
                !.category = Lower(s.category)] }
    \cup {[s EXCEPT !.name = v] : v \in CaseVariants(s.name)}
    \cup {[s EXCEPT !.beneficiary = v] : v \in CaseVariants(s.beneficiary)}
    \cup {[s EXCEPT !.category = v] : v \in CaseVariants(s.category)}

(***************************************************************************)
(* The scorer as a state machine: one call on inputs drawn at the start,   *)
(* then a second, independent call on any other input.                     *)
(***************************************************************************)
InitScore ==
    /\ pc = "start"
    /\ scheme \in ScoreSchemes
    /\ user_profile \in ScoreProfiles
    /\ match_score = None
    /\ other_scheme = None
    /\ other_profile = None
    /\ other_score = None
    /\ schemes = <<>>
    /\ search_query = ""
    /\ ministry_filter = "All Ministries"
    /\ beneficiary_filter = "All Types"
    /\ category_filter = "All Categories"
    /\ filtered = None
    /\ refiltered = None
    /\ AZURE_OPENAI_API_KEY = None
    /\ AZURE_OPENAI_ENDPOINT = None
    /\ calls = 0
    /\ outbox = <<>>
    /\ response = NoRequest
    /\ explanation = None
    /\ IdleLater

\* match_score = calculate_match_score(scheme, user_profile)
ScoreCall ==
    /\ pc = "start"
    /\ match_score' = calculate_match_score(scheme, user_profile)
    /\ pc' = "scored"
    /\ UNCHANGED <<scheme, user_profile, other_scheme, other_profile, other_score>>
    /\ UNCHANGED <<filterVars, explainVars, laterVars>>

\* A second call, on the same texts in another letter case: the scheme's
\* fields recased, or the profile, or both in upper case.
ScoreCallRecased ==
    /\ pc = "scored"
    /\ \E s \in SchemeCaseVariants(scheme) \cup {scheme},
          p \in CaseVariants(user_profile) \cup {user_profile} :
          /\ \/ s = scheme
             \/ p = user_profile
             \/ /\ p = Upper(user_profile)
                /\ s.name = Upper(scheme.name)
                /\ s.beneficiary = Upper(scheme.beneficiary)
                /\ s.category = Upper(scheme.category)
          /\ other_scheme' = s
          /\ other_profile' = p
          /\ other_score' = calculate_match_score(s, p)
    /\ pc' = "rescored"
    /\ UNCHANGED <<scheme, user_profile, match_score>>
    /\ UNCHANGED <<filterVars, explainVars, laterVars>>

\* A second call, on another scheme and profile.
ScoreCallOther ==
    /\ pc = "scored"
    /\ \E n \in {0, 1, 8, 9, 10, Len(keywords)} :
          /\ other_scheme' = [scheme EXCEPT !.name = KeywordPrefix(n),
                                            !.beneficiary = "", !.category = ""]
          /\ other_profile' = KeywordPrefix(Len(keywords))
          /\ other_score' = calculate_match_score(other_scheme', other_profile')
    /\ pc' = "rescored"
    /\ UNCHANGED <<scheme, user_profile, match_score>>
    /\ UNCHANGED <<filterVars, explainVars, laterVars>>

NextScore == ScoreCall \/ ScoreCallRecased \/ ScoreCallOther

SpecScore == InitScore /\ [][NextScore]_vars

(***************************************************************************)
(* Claims about calculate_match_score.                                     *)
(***************************************************************************)
KeywordSet == {keywords[i] : i \in 1..Len(keywords)}

\* The vocabulary keywords present in both lowercased texts.
SharedKeywords(s, p) ==
    LET st == Lower(s.name \o " " \o s.beneficiary \o " " \o s.category)
        pt == Lower(p)
    IN  {k \in KeywordSet : Contains(st, k) /\ Contains(pt, k)}

Hits(s, p) == Cardinality(SharedKeywords(s, p))

\* C1: every score is an integer in [50, 95]; of two scoring calls the one
\* with no fewer shared keyword hits gets no lower a score; and with 9 or
\* more hits the score is 95.
C1_ScoreRangeMonotone ==
    LET m == Hits(scheme, user_profile)
        n == Hits(other_scheme, other_profile)
    IN  /\ pc # "start" =>
              /\ match_score \in 50..95
              /\ m >= 9 => match_score = 95
        /\ pc = "rescored" =>
              /\ other_score \in 50..95
              /\ n >= 9 => other_score = 95
              /\ m <= n => match_score <= other_score
              /\ n <= m => other_score <= match_score

\* Two calls, one with 10 hits scored 95 and one with fewer hits scored less.
C1_Witness ==
    /\ pc = "rescored"
    /\ match_score = 95
    /\ other_score < match_score
    /\ Hits(scheme, user_profile) >= 10
    /\ Hits(other_scheme, other_profile) < 9

\* C2: the score is exactly min(95, 50 + 5 m), m the number of vocabulary
\* keywords present in both lowercased texts, each counted once; an empty
\* profile gives 50 and a single shared keyword gives 55.
C2_ScoreFormula ==
    LET m == Hits(scheme, user_profile)
        n == Hits(other_scheme, other_profile)
    IN  /\ pc # "start" =>
              /\ match_score = Min(95, 50 + 5 * m)
              /\ user_profile = "" => match_score = 50
              /\ m = 1 => match_score = 55
        /\ pc = "rescored" =>
              /\ other_score = Min(95, 50 + 5 * n)
              /\ other_profile = "" => other_score = 50
              /\ n = 1 => other_score = 55

\* The example of the specification: "Kisan Samman" / "farmer" / "Farmers"
\* against "35 years old farmer" shares the one keyword "farmer".
C2_Witness ==
    /\ pc = "scored"
    /\ scheme.name = "Kisan Samman"
    /\ scheme.beneficiary = "farmer"
    /\ scheme.category = "Farmers"
    /\ user_profile = "35 years old farmer"
    /\ SharedKeywords(scheme, user_profile) = {"farmer"}
    /\ match_score = 55

\* a and b are the same text up to the letter case of their characters.
SameUpToCase(a, b) ==
    /\ Len(a) = Len(b)
    /\ \A i \in 1..Len(a) :
          \/ Char(a, i) = Char(b, i)
          \/ Char(a, i) \in UpperLetters /\ ToLower[Char(a, i)] = Char(b, i)
          \/ Char(b, i) \in UpperLetters /\ ToLower[Char(b, i)] = Char(a, i)

RecasedCall ==
    /\ pc = "rescored"
    /\ SameUpToCase(other_scheme.name, scheme.name)
    /\ SameUpToCase(other_scheme.beneficiary, scheme.beneficiary)
    /\ SameUpToCase(other_scheme.category, scheme.category)
    /\ SameUpToCase(other_profile, user_profile)

\* C3: two calls whose scheme name, beneficiary, category and profile differ
\* only in letter case return the same score.
C3_CaseInsensitive == RecasedCall => other_score = match_score

\* A recased call on inputs that share keywords.
C3_Witness ==
    /\ RecasedCall
    /\ other_scheme # scheme
    /\ other_profile # user_profile
    /\ match_score >= 60
    /\ other_score = match_score


\* The vocabulary keywords of the profile that are words of the scheme text,
\* and those the scheme text holds only inside longer words.
WordKeywords(s, p) ==
    LET st == Lower(s.name \o " " \o s.beneficiary \o " " \o s.category)
        pt == Lower(p)
    IN  {k \in KeywordSet : IsWordOf(st, k) /\ Contains(pt, k)}

PartKeywords(s, p) ==
    LET st == Lower(s.name \o " " \o s.beneficiary \o " " \o s.category)
        pt == Lower(p)
    IN  {k \in KeywordSet : Contains(st, k) /\ ~IsWordOf(st, k) /\ Contains(pt, k)}

\* C19 as stated: a keyword counts only when it is one of the words of the
\* scheme text; one that occurs merely inside a longer word adds nothing.
C19_WholeWordsOnly ==
    pc # "start" =>
        match_score = Min(95, 50 + 5 * Cardinality(WordKeywords(scheme, user_profile)))

\* C19, amended: a keyword counts when it occurs anywhere in the lowercased
\* scheme text, as a word or inside a longer word ("old" in "household"):
\* each keyword of the profile found in either way adds five points.
C19_PartOfWordCounts ==
    pc # "start" =>
        LET w == Cardinality(WordKeywords(scheme, user_profile))
            q == Cardinality(PartKeywords(scheme, user_profile))
        IN  /\ match_score = Min(95, 50 + 5 * (w + q))
            /\ (q > 0 /\ w + q <= 9) => match_score > 50 + 5 * w

\* "old" is in the profile and in the scheme text only inside "household";
\* "women" is a word of both.
C19_Witness ==
    /\ pc = "scored"
    /\ scheme.name = "WOMEN household"
    /\ scheme.beneficiary = "Small Business"
    /\ scheme.category = "Senior Citizens"
    /\ user_profile = "35 years old, Women category"
    /\ WordKeywords(scheme, user_profile) = {"women"}
    /\ PartKeywords(scheme, user_profile) = {"old"}
    /\ match_score = 60

(***************************************************************************)
(* filter_schemes (src/app.py 1228-1261).                                  *)
(***************************************************************************)
AllMinistries == "All Ministries"
AllTypes == "All Types"
AllCategories == "All Categories"

\* The condition of the search comprehension (lines 1243-1246).
search_condition(search_lower, s) ==
    \/ Contains(Lower(s.name), search_lower)
    \/ Contains(Lower(s.description), search_lower)
    \/ Contains(Lower(s.ministry), search_lower)
    \/ Contains(Lower(s.beneficiary), search_lower)

\* Mutants of filter_schemes.
filter_schemes_sentinel_as_value(list, query, ministry, beneficiary, category) ==
    LET f1 == IF query # ""
              THEN LET search_lower == Lower(query)
                   IN  SelectSeq(list, LAMBDA s : search_condition(search_lower, s))
              ELSE list
        f2 == IF ministry # AllMinistries
              THEN SelectSeq(f1, LAMBDA s : s.ministry = ministry) ELSE f1
        f3 == IF beneficiary # AllTypes
              THEN SelectSeq(f2, LAMBDA s : s.beneficiary = beneficiary) ELSE f2
    IN  SelectSeq(f3, LAMBDA s : s.category = category)

filter_schemes_any_criterion(list, query, ministry, beneficiary, category) ==
    SelectSeq(list, LAMBDA s :
        \/ query # "" /\ search_condition(Lower(query), s)
        \/ s.ministry = ministry
        \/ s.beneficiary = beneficiary
        \/ s.category = category
        \/ /\ query = "" /\ ministry = AllMinistries
           /\ beneficiary = AllTypes /\ category = AllCategories)

filter_schemes_drop_first(list, query, ministry, beneficiary, category) ==
    LET f1 == IF query # ""
              THEN LET search_lower == Lower(query)
                   IN  SelectSeq(list, LAMBDA s : search_condition(search_lower, s))
              ELSE list
        f2 == IF ministry # AllMinistries
              THEN SelectSeq(f1, LAMBDA s : s.ministry = ministry) ELSE f1
        f3 == IF beneficiary # AllTypes
              THEN SelectSeq(f2, LAMBDA s : s.beneficiary = beneficiary) ELSE f2
        f4 == IF category # AllCategories
              THEN SelectSeq(f3, LAMBDA s : s.category = category) ELSE f3
    IN  IF Len(f4) > 1 THEN Tail(f4) ELSE f4

filter_schemes_name_description_only(list, query, ministry, beneficiary, category) ==
    LET f1 == IF query # ""
              THEN LET search_lower == Lower(query)
                   IN  SelectSeq(list, LAMBDA s :
                          \/ Contains(Lower(s.name), search_lower)
                          \/ Contains(Lower(s.description), search_lower))
              ELSE list
        f2 == IF ministry # AllMinistries
              THEN SelectSeq(f1, LAMBDA s : s.ministry = ministry) ELSE f1
        f3 == IF beneficiary # AllTypes
              THEN SelectSeq(f2, LAMBDA s : s.beneficiary = beneficiary) ELSE f2
    IN  IF category # AllCategories
        THEN SelectSeq(f3, LAMBDA s : s.category = category) ELSE f3

\* Mutant: the categorical criteria match a part of the field, in any case.
filter_schemes_loose_match(list, query, ministry, beneficiary, category) ==
    LET f1 == IF query # ""
              THEN LET search_lower == Lower(query)
                   IN  SelectSeq(list, LAMBDA s : search_condition(search_lower, s))
              ELSE list
        f2 == IF ministry # AllMinistries
              THEN SelectSeq(f1, LAMBDA s : Contains(Lower(s.ministry), Lower(ministry)))
              ELSE f1
        f3 == IF beneficiary # AllTypes
              THEN SelectSeq(f2, LAMBDA s : Contains(Lower(s.beneficiary), Lower(beneficiary)))
              ELSE f2
    IN  IF category # AllCategories
        THEN SelectSeq(f3, LAMBDA s : Contains(Lower(s.category), Lower(category)))
        ELSE f3

\* filtered = schemes.copy(), then one list comprehension
\* [s for s in filtered if ...] per active criterion.
filter_schemes(list, query, ministry, beneficiary, category) ==
    LET f0 == list
        f1 == IF query # ""
              THEN LET search_lower == Lower(query)
                   IN  SelectSeq(f0, LAMBDA s : search_condition(search_lower, s))
              ELSE f0
        f2 == IF ministry # AllMinistries
              THEN SelectSeq(f1, LAMBDA s : s.ministry = ministry) ELSE f1
        f3 == IF beneficiary # AllTypes
              THEN SelectSeq(f2, LAMBDA s : s.beneficiary = beneficiary) ELSE f2
        f4 == IF category # AllCategories
              THEN SelectSeq(f3, LAMBDA s : s.category = category) ELSE f3
    IN  f4

(***************************************************************************)
(* Inputs of the filter: catalogs of distinct records of a small pool, in  *)
(* which "women" occurs in a different field of each record.               *)
(***************************************************************************)
SchemePool ==
    { Scheme(1, "PM Kisan", "Ministry of Agriculture", "Farmers",
             "Aid for women farmers", "Farmers", "Income support"),
      Scheme(2, "Ujjwala", "Ministry of Petroleum", "Households",
             "LPG connection", "Women", "Fuel for rural Women"),
      Scheme(3, "Women Helpline", "Ministry of Home", "Citizens",
             "Emergency response", "Women", "Call 181"),
      Scheme(4, "Stand Up India", "Ministry of Women and Child", "Entrepreneurs",
             "Bank loans", "MSME", "Credit for enterprises"),
      Scheme(5, "Sukanya", "Ministry of Finance", "Women",
             "Savings account", "Education", "Deposit for education"),
      Scheme(6, "Atal Pension", "Ministry of Finance", "Workers",
             "Monthly pension", "Senior Citizens", "Pension after 60") }

\* The lists of at most n distinct records of the pool, in every order.
RECURSIVE Catalogs(_)
Catalogs(n) ==
    IF n = 0 THEN {<<>>}
    ELSE LET shorter == Catalogs(n - 1)
         IN  shorter \cup
             { Append(c, s) : c \in shorter,
                              s \in SchemePool }

DistinctIds(list) ==
    \A i, j \in 1..Len(list) : list[i].id = list[j].id => i = j

FilterCatalogs == {c \in Catalogs(MaxSchemes) : DistinctIds(c)}

SearchQueries == {"", "Women", "kisan"}
MinistryFilters == {AllMinistries, "Ministry of Agriculture", "Ministry of Women"}
BeneficiaryFilters == {AllTypes, "Women"}
CategoryFilters == {AllCategories, "Women", "women"}

InitFilter ==
    /\ pc = "start"
    /\ schemes \in FilterCatalogs
    /\ search_query \in SearchQueries
    /\ ministry_filter \in MinistryFilters
    /\ beneficiary_filter \in BeneficiaryFilters
    /\ category_filter \in CategoryFilters
    /\ filtered = None
    /\ refiltered = None
    /\ scheme = None
    /\ user_profile = None
    /\ match_score = None
    /\ other_scheme = None
    /\ other_profile = None
    /\ other_score = None
    /\ AZURE_OPENAI_API_KEY = None
    /\ AZURE_OPENAI_ENDPOINT = None
    /\ calls = 0
    /\ outbox = <<>>
    /\ response = NoRequest
    /\ explanation = None
    /\ IdleLater

\* filtered = filter_schemes(schemes, search_query, ...)
FilterCall ==
    /\ pc = "start"
    /\ filtered' = filter_schemes(schemes, search_query, ministry_filter,
                                  beneficiary_filter, category_filter)
    /\ pc' = "filtered"
    /\ UNCHANGED <<schemes, search_query, ministry_filter, beneficiary_filter,
                   category_filter, refiltered>>
    /\ UNCHANGED <<scoreVars, explainVars, laterVars>>

\* The same criteria applied to the result of the first call.
FilterAgain ==
    /\ pc = "filtered"
    /\ refiltered' = filter_schemes(filtered, search_query, ministry_filter,
                                    beneficiary_filter, category_filter)
    /\ pc' = "refiltered"
    /\ UNCHANGED <<schemes, search_query, ministry_filter, beneficiary_filter,
                   category_filter, filtered>>
    /\ UNCHANGED <<scoreVars, explainVars, laterVars>>

NextFilter == FilterCall \/ FilterAgain

SpecFilter == InitFilter /\ [][NextFilter]_vars

(***************************************************************************)
(* Claims about filter_schemes.                                            *)
(***************************************************************************)
Range(list) == {list[i] : i \in 1..Len(list)}

Unconstrained ==
    /\ ministry_filter = "All Ministries"
    /\ beneficiary_filter = "All Types"
    /\ category_filter = "All Categories"

\* C4: with an empty query and the three sentinels the result is the input
\* list, record for record and in the same order (the empty list included).
C4_UnconstrainedIsIdentity ==
    (pc # "start" /\ search_query = "" /\ Unconstrained) => filtered = schemes

C4_Witness ==
    /\ pc = "filtered"
    /\ search_query = ""
    /\ Unconstrained
    /\ Len(schemes) = MaxSchemes
    /\ filtered = schemes

\* The lowercased query occurs in one of the four searched fields of s.
QueryIn(q, s) ==
    \E field \in {s.name, s.description, s.ministry, s.beneficiary} :
        Contains(Lower(field), Lower(q))

\* s satisfies every active criterion.
Satisfies(s, q, m, b, c) ==
    /\ q # "" => QueryIn(q, s)
    /\ m # "All Ministries" => s.ministry = m
    /\ b # "All Types" => s.beneficiary = b
    /\ c # "All Categories" => s.category = c

\* sub holds exactly the records of list that are in keep, once each and in
\* the order of list (the records of list are distinct).
IsSelection(sub, list, keep) ==
    /\ Range(sub) = Range(list) \cap keep
    /\ \A i, j \in 1..Len(sub) : i < j =>
          \E k, l \in 1..Len(list) : k < l /\ list[k] = sub[i] /\ list[l] = sub[j]

\* C5: the result holds exactly the input records that satisfy every active
\* criterion, in catalog order, nothing added, duplicated or reordered; so
\* it is within the result of each criterion applied alone.
C5_ConjunctionInOrder ==
    pc # "start" =>
        /\ IsSelection(filtered, schemes,
              {s \in SchemePool : Satisfies(s, search_query, ministry_filter,
                                            beneficiary_filter, category_filter)})
        /\ Range(filtered) \subseteq
              (Range(filter_schemes(schemes, search_query, "All Ministries",
                                    "All Types", "All Categories"))
               \cap Range(filter_schemes(schemes, "", ministry_filter,
                                         "All Types", "All Categories"))
               \cap Range(filter_schemes(schemes, "", "All Ministries",
                                         beneficiary_filter, "All Categories"))
               \cap Range(filter_schemes(schemes, "", "All Ministries",
                                         "All Types", category_filter)))

\* Two active criteria that keep two records and drop another.
C5_Witness ==
    /\ pc = "filtered"
    /\ search_query = "Women"
    /\ category_filter = "Women"
    /\ Len(schemes) = 3
    /\ Len(filtered) = 2
    /\ filtered[1].id > filtered[2].id

\* C6: filtering the result again with the same criteria returns the same list.
C6_Idempotent == pc = "refiltered" => refiltered = filtered

C6_Witness ==
    /\ pc = "refiltered"
    /\ search_query # ""
    /\ Len(filtered) >= 2
    /\ Len(filtered) < Len(schemes)
    /\ refiltered = filtered

\* C7 as stated: when exactly one record has the query in its description,
\* the result of a search alone has length 1.
C7_OneDescriptionOneResult ==
    (/\ pc # "start"
     /\ search_query # ""
     /\ Unconstrained
     /\ Cardinality({i \in 1..Len(schemes) :
            Contains(Lower(schemes[i].description), Lower(search_query))}) = 1)
    => Len(filtered) = 1

\* C7 (amended): with a non-empty query and no other criterion, a record is
\* kept iff the lowercased query is a substring of its lowercased name,
\* description, ministry or beneficiary; so when exactly one record has the
\* query in any of these four fields the result has length 1.
C7_SearchFourFields ==
    (pc # "start" /\ search_query # "" /\ Unconstrained) =>
        /\ \A i \in 1..Len(schemes) :
              schemes[i] \in Range(filtered) <=> QueryIn(search_query, schemes[i])
        /\ Cardinality({i \in 1..Len(schemes) : QueryIn(search_query, schemes[i])}) = 1
              => Len(filtered) = 1

\* A catalog of 3 in which only one record has the query, in its description,
\* and another has it in a field that is not searched.
C7_Witness ==
    /\ pc = "filtered"
    /\ search_query = "Women"
    /\ Unconstrained
    /\ Len(schemes) = 3
    /\ {schemes[i].id : i \in 1..3} = {6, 2, 1}
    /\ Len(filtered) = 1
    /\ filtered[1].id = 2


\* The result for the same list and criteria with the ministry, the
\* beneficiary or the category criterion left at its sentinel.
WithoutMinistry ==
    filter_schemes(schemes, search_query, AllMinistries, beneficiary_filter,
                   category_filter)

WithoutBeneficiary ==
    filter_schemes(schemes, search_query, ministry_filter, AllTypes, category_filter)

WithoutCategory ==
    filter_schemes(schemes, search_query, ministry_filter, beneficiary_filter,
                   AllCategories)

\* C15: each categorical criterion is optional on its own: at its sentinel
\* it removes nothing, and at any other value it keeps, of what the other
\* criteria keep, exactly the schemes whose field equals the value (same
\* letters, same case, the whole text).
C15_CategoricalExact ==
    pc # "start" =>
        /\ filtered = IF ministry_filter = AllMinistries THEN WithoutMinistry
                      ELSE SelectSeq(WithoutMinistry,
                                     LAMBDA s : s.ministry = ministry_filter)
        /\ filtered = IF beneficiary_filter = AllTypes THEN WithoutBeneficiary
                      ELSE SelectSeq(WithoutBeneficiary,
                                     LAMBDA s : s.beneficiary = beneficiary_filter)
        /\ filtered = IF category_filter = AllCategories THEN WithoutCategory
                      ELSE SelectSeq(WithoutCategory,
                                     LAMBDA s : s.category = category_filter)
        /\ \A i \in 1..Len(filtered) :
              /\ ministry_filter \in {AllMinistries, filtered[i].ministry}
              /\ beneficiary_filter \in {AllTypes, filtered[i].beneficiary}
              /\ category_filter \in {AllCategories, filtered[i].category}

\* "Ministry of Women" keeps nothing although a ministry of the list holds
\* it as a part, while the beneficiary criterion is at its sentinel.
C15_Witness ==
    /\ pc = "filtered"
    /\ search_query = ""
    /\ ministry_filter = "Ministry of Women"
    /\ beneficiary_filter = AllTypes
    /\ category_filter = AllCategories
    /\ \E i \in 1..Len(schemes) : schemes[i].ministry = "Ministry of Women and Child"
    /\ Len(schemes) = 3
    /\ filtered = <<>>

(***************************************************************************)
(* call_azure_openai (src/app.py 93-134) and                               *)
(* generate_eligibility_explanation (src/app.py 172-199).                  *)
(***************************************************************************)
\* The warning sign U+26A0 U+FE0F that opens every fallback string.
WarningSign == "(!)"

MaxTokens == 150
RequestTimeout == 10

\* Python truthiness of an os.getenv() value: unset (None) and "" are false.
Truthy(v) == v # None /\ v # ""

Whitespace == {" ", "\t", "\n", "\r"}

RECURSIVE LStrip(_)
LStrip(s) ==
    IF Len(s) > 0 /\ Char(s, 1) \in Whitespace THEN LStrip(Tail(s)) ELSE s

RECURSIVE RStrip(_)
RStrip(s) ==
    IF Len(s) > 0 /\ Char(s, Len(s)) \in Whitespace
    THEN RStrip(SubSeq(s, 1, Len(s) - 1)) ELSE s

\* A mutant of Strip: only the leading whitespace goes.
Strip_leading_only(s) == LStrip(s)

\* s.strip()
Strip(s) == RStrip(LStrip(s))

\* What the network and the service can do with one posted request.
HttpStatuses == {200, 201, 300, 404, 503}

\* message.content strings: with and without surrounding whitespace, with
\* whitespace inside, of whitespace only, and empty.
Contents ==
    { "You may qualify.", " You may qualify.\n", "\n\t Gap: age  limit \r\n",
      "Next steps:\napply online", " \t", "" }

\* Bodies: not JSON at all (response.json() raises requests' JSONDecodeError,
\* a RequestException, or a plain ValueError, by the version of requests), or
\* JSON of another shape, or a completion with a content string.
Bodies ==
    { [shape |-> sh, content |-> None] :
        sh \in { "not_json_RequestException", "not_json_ValueError", "json_list",
                 "no_choices", "empty_choices", "no_message", "no_content",
                 "null_content" } }
    \cup { [shape |-> "completion", content |-> c] : c \in Contents }

NetworkOutcomes ==
    { [kind |-> k, status |-> 0, body |-> NoBody] : k \in {"ConnectionError", "Timeout"} }
    \cup { [kind |-> "Response", status |-> st, body |-> b] :
             st \in HttpStatuses, b \in Bodies }

\* response.raise_for_status() raises HTTPError for 4xx and 5xx only.
raise_for_status(status) == status >= 400 /\ status < 600

\* str(e) of the exception raised for an outcome.
ExceptionText(net) ==
    CASE net.kind = "ConnectionError" -> "Connection refused"
      [] net.kind = "Timeout" -> "Read timed out. (read timeout=10)"
      [] raise_for_status(net.status) -> "HTTP Error"
      [] OTHER -> net.body.shape

NotConfiguredText ==
    WarningSign \o " Azure OpenAI not configured. Please set your API credentials in .env file."

RequestErrorText(net) == WarningSign \o " Error calling Azure OpenAI: " \o ExceptionText(net)

UnexpectedErrorText(net) == WarningSign \o " Unexpected error: " \o ExceptionText(net)

\* Mutants of call_azure_openai.
call_azure_openai_post_first(prompt, max_tokens, net) ==
    [ text   |-> IF ~(Truthy(AZURE_OPENAI_API_KEY) /\ Truthy(AZURE_OPENAI_ENDPOINT))
                 THEN NotConfiguredText
                 ELSE IF net.kind # "Response" \/ raise_for_status(net.status)
                 THEN RequestErrorText(net)
                 ELSE IF net.body.shape = "completion" THEN Strip(net.body.content)
                 ELSE UnexpectedErrorText(net),
      posted |-> << [prompt |-> prompt, max_tokens |-> max_tokens,
                     timeout |-> RequestTimeout] >> ]

\* Mutant: a request that got no answer is posted a second time.
call_azure_openai_retry(prompt, max_tokens, net) ==
    LET request == [prompt |-> prompt, max_tokens |-> max_tokens,
                    timeout |-> RequestTimeout]
    IN  IF ~(Truthy(AZURE_OPENAI_API_KEY) /\ Truthy(AZURE_OPENAI_ENDPOINT))
        THEN [text |-> NotConfiguredText, posted |-> <<>>]
        ELSE IF net.kind # "Response"
        THEN [text |-> RequestErrorText(net), posted |-> <<request, request>>]
        ELSE [text |-> IF raise_for_status(net.status)
                            \/ net.body.shape = "not_json_RequestException"
                       THEN RequestErrorText(net)
                       ELSE IF net.body.shape = "completion"
                       THEN Strip(net.body.content)
                       ELSE UnexpectedErrorText(net),
              posted |-> <<request>>]

\* The text returned, and the requests posted on the way (none or one).
call_azure_openai(prompt, max_tokens, net) ==
    IF ~(Truthy(AZURE_OPENAI_API_KEY) /\ Truthy(AZURE_OPENAI_ENDPOINT))
    THEN [text |-> NotConfiguredText, posted |-> <<>>]
    ELSE
      [ text |->
          CASE net.kind # "Response" -> RequestErrorText(net)   \* requests.post raises
            [] net.kind = "Response" /\ raise_for_status(net.status) ->
                  RequestErrorText(net)
            [] net.kind = "Response" /\ ~raise_for_status(net.status)
                 /\ net.body.shape = "not_json_RequestException" ->
                  RequestErrorText(net)
            [] net.kind = "Response" /\ ~raise_for_status(net.status)
                 /\ net.body.shape = "completion" ->
                  Strip(net.body.content)
            [] OTHER -> UnexpectedErrorText(net),    \* KeyError, IndexError, ...
        posted |-> << [prompt |-> prompt, max_tokens |-> max_tokens,
                       timeout |-> RequestTimeout] >> ]

\* The f-string of lines 177-191.
Prompt(s, p) ==
    "Scheme Name: " \o s.name \o "\nMinistry: " \o s.ministry
      \o "\nBeneficiary Type: " \o s.beneficiary \o "\nBenefit: " \o s.benefit
      \o "\nUser Profile: " \o p
      \o "\nBased on the scheme details and user profile: ..."

generate_eligibility_explanation(s, p, net) ==
    LET r == call_azure_openai(Prompt(s, p), MaxTokens, net)
        score == calculate_match_score(s, p)
    IN  [explanation |-> r.text, match_score |-> score, posted |-> r.posted]

(***************************************************************************)
(* The explanation generator as a state machine: the credentials and one   *)
(* scheme and profile are drawn at the start, then the generator is        *)
(* invoked, each time against whatever the network does.                   *)
(***************************************************************************)
Credentials == {None, "", "secret"}
Endpoints == {None, "", "https://example.openai.azure.com"}

ExplainSchemes == {s \in SchemePool : s.id \in {1, 2}}
ExplainProfiles == {"General user", BuildProfile("35", "Farmers", "farmer")}

Configured == Truthy(AZURE_OPENAI_API_KEY) /\ Truthy(AZURE_OPENAI_ENDPOINT)

InitExplain ==
    /\ pc = "start"
    /\ scheme \in ExplainSchemes
    /\ user_profile \in ExplainProfiles
    /\ AZURE_OPENAI_API_KEY \in Credentials
    /\ AZURE_OPENAI_ENDPOINT \in Endpoints
    /\ calls = 0
    /\ outbox = <<>>
    /\ response = NoRequest
    /\ explanation = None
    /\ match_score = None
    /\ other_scheme = None
    /\ other_profile = None
    /\ other_score = None
    /\ schemes = <<>>
    /\ search_query = ""
    /\ ministry_filter = "All Ministries"
    /\ beneficiary_filter = "All Types"
    /\ category_filter = "All Categories"
    /\ filtered = None
    /\ refiltered = None
    /\ IdleLater

\* explanation, match_score = generate_eligibility_explanation(scheme, user_profile)
Explain ==
    /\ pc \in {"start", "explained"}
    /\ calls < MaxCalls
    /\ \E net \in (IF Configured THEN NetworkOutcomes ELSE {NoRequest}) :
          LET r == generate_eligibility_explanation(scheme, user_profile, net)
          IN  /\ explanation' = r.explanation
              /\ match_score' = r.match_score
              /\ outbox' = outbox \o r.posted
              /\ response' = IF r.posted = <<>> THEN NoRequest ELSE net
    /\ calls' = calls + 1
    /\ pc' = "explained"
    /\ UNCHANGED <<scheme, user_profile, AZURE_OPENAI_API_KEY, AZURE_OPENAI_ENDPOINT,
                   other_scheme, other_profile, other_score>>
    /\ UNCHANGED <<filterVars, laterVars>>

\* A record with the name, beneficiary and category of s and other values
\* in every other field.
Variant(s) ==
    [ s EXCEPT !.id = s.id + 100,
               !.ministry = "Ministry of Rural Development",
               !.benefit = "Pension for senior farmer",
               !.description = "For every farmer, student and widow",
               !.source_url = "https://example.org/scheme" ]

\* A further invocation, for the same profile and a record that differs
\* from the scheme of the invocation before in the fields the scorer does
\* not read; what the invocation before was given and scored is kept in
\* other_scheme, other_profile and other_score.
ExplainVariant ==
    /\ pc = "explained"
    /\ calls < MaxCalls
    /\ \E net \in (IF Configured THEN NetworkOutcomes ELSE {NoRequest}) :
          LET r == generate_eligibility_explanation(Variant(scheme), user_profile, net)
          IN  /\ explanation' = r.explanation
              /\ match_score' = r.match_score
              /\ outbox' = outbox \o r.posted
              /\ response' = IF r.posted = <<>> THEN NoRequest ELSE net
    /\ scheme' = Variant(scheme)
    /\ other_scheme' = scheme
    /\ other_profile' = user_profile
    /\ other_score' = match_score
    /\ calls' = calls + 1
    /\ pc' = "compared"
    /\ UNCHANGED <<user_profile, AZURE_OPENAI_API_KEY, AZURE_OPENAI_ENDPOINT>>
    /\ UNCHANGED <<filterVars, laterVars>>

NextExplain == Explain \/ ExplainVariant

SpecExplain == InitExplain /\ [][NextExplain]_vars

(***************************************************************************)
(* Claims about generate_eligibility_explanation.                          *)
(***************************************************************************)
\* The text opens with the warning sign.
IsWarning(t) == Len(t) >= Len(WarningSign) /\ SubSeq(t, 1, Len(WarningSign)) = WarningSign

\* The score of the scorer's contract for a scheme and a profile.
ExpectedScore(s, p) == Min(95, 50 + 5 * Hits(s, p))

\* The last invocation posted a request and the service answered it.
Answered == response.kind = "Response"

\* The remote call of the last invocation failed: no credentials, no answer,
\* a status outside 2xx, or a body without choices[0].message.content.
RemoteCallFailed ==
    \/ ~Configured
    \/ ~Answered
    \/ response.status \notin 200..299
    \/ response.body.shape # "completion"

\* C8: whenever the remote call fails (connection error, timeout, non-2xx
\* status, body of unexpected shape, missing credentials) the generator
\* returns a fallback string marked as a warning, with the scorer's score.
C8_FailureGivesFallback ==
    (pc = "explained" /\ RemoteCallFailed) =>
        /\ IsWarning(explanation)
        /\ match_score = ExpectedScore(scheme, user_profile)

\* C9: with the API key or the endpoint not configured, the generator
\* returns the configuration warning, posts no request, and returns the
\* scorer's score.
C9_NotConfiguredNoRequest ==
    (pc = "explained" /\ ~Configured) =>
        /\ IsWarning(explanation)
        /\ Contains(explanation, "not configured")
        /\ outbox = <<>>
        /\ response = NoRequest
        /\ match_score = ExpectedScore(scheme, user_profile)

\* Two invocations with a key but no endpoint, on inputs that share a keyword.
C9_Witness ==
    /\ pc = "explained"
    /\ AZURE_OPENAI_API_KEY = "secret"
    /\ AZURE_OPENAI_ENDPOINT = None
    /\ calls = 2
    /\ outbox = <<>>
    /\ IsWarning(explanation)
    /\ match_score = 55

\* r is c without its leading and trailing whitespace.
IsTrimOf(r, c) ==
    \E i \in 1..(Len(c) + 1), j \in 0..Len(c) :
        /\ r = SubSeq(c, i, j)
        /\ \A k \in 1..(i - 1) : Char(c, k) \in Whitespace
        /\ \A k \in (j + 1)..Len(c) : Char(c, k) \in Whitespace
        /\ Len(r) > 0 => Char(r, 1) \notin Whitespace /\ Char(r, Len(r)) \notin Whitespace

\* C10: on a 2xx answer whose body holds choices[0].message.content, the
\* generator returns that content without its leading and trailing
\* whitespace, with the scorer's score.
C10_SuccessReturnsTrimmedContent ==
    (/\ pc = "explained"
     /\ Answered
     /\ response.status \in 200..299
     /\ response.body.shape = "completion")
    => /\ IsTrimOf(explanation, response.body.content)
       /\ match_score = ExpectedScore(scheme, user_profile)

\* A 201 answer whose content has whitespace on both sides and inside.
C10_Witness ==
    /\ pc = "explained"
    /\ Answered
    /\ response.status = 201
    /\ response.body.shape = "completion"
    /\ response.body.content = "\n\t Gap: age  limit \r\n"
    /\ explanation = "Gap: age  limit"
    /\ Len(outbox) = calls
    /\ match_score = 55

\* The two records agree on the fields the score may depend on.
SameScoredFields(a, b) ==
    /\ a.name = b.name
    /\ a.beneficiary = b.beneficiary
    /\ a.category = b.category

\* C17: the score is a function of the scheme's name, beneficiary and
\* category and of the profile text alone: it is the value these four give
\* whatever the credentials and the outcome of the remote call, and two
\* invocations that agree on the four return the same score although the
\* records differ in id, ministry, benefit, description and source_url.
C17_ScoreOfFourValuesOnly ==
    /\ pc \in {"explained", "compared"}
          => match_score = ExpectedScore([ name |-> scheme.name,
                                          beneficiary |-> scheme.beneficiary,
                                          category |-> scheme.category ],
                                        user_profile)
    /\ (pc = "compared" /\ SameScoredFields(other_scheme, scheme)
           /\ other_profile = user_profile)
          => other_score = match_score

\* Two invocations on records that share the three fields only, the first
\* answered with a completion and the second not answered, with a profile
\* that shares a keyword with the other fields of the second record.
C17_Witness ==
    /\ pc = "compared"
    /\ Configured
    /\ SameScoredFields(other_scheme, scheme)
    /\ other_scheme.id # scheme.id
    /\ other_scheme.ministry # scheme.ministry
    /\ other_scheme.benefit # scheme.benefit
    /\ other_scheme.description # scheme.description
    /\ other_scheme.source_url # scheme.source_url
    /\ Contains(Lower(scheme.description), "farmer")
    /\ Contains(Lower(user_profile), "farmer")
    /\ response.kind = "Timeout"
    /\ IsWarning(explanation)
    /\ other_score = match_score
    /\ match_score = 55

\* The request call_azure_openai posts for a scheme and a profile.
RequestFor(s, p) ==
    [prompt |-> Prompt(s, p), max_tokens |-> MaxTokens, timeout |-> RequestTimeout]

\* C13: with credentials configured, every invocation of
\* generate_eligibility_explanation posts exactly one request, the one for
\* its scheme and profile, whatever became of the requests before it: a
\* failed request is not posted again and no earlier result is reused, so
\* the requests posted number the invocations.
C13_OneRequestPerInvocation ==
    [][(Configured /\ calls' = calls + 1)
          => /\ outbox' = Append(outbox, RequestFor(scheme', user_profile'))
             /\ Len(outbox') = calls']_vars

\* A second invocation for the same pair, after a first whose request
\* failed, and itself failing: two requests, no more.
C13_Witness ==
    /\ Configured
    /\ calls = 2
    /\ Len(outbox) = 2
    /\ outbox[1] = outbox[2]
    /\ response.kind = "ConnectionError"
    /\ IsWarning(explanation)

(***************************************************************************)
(* The explanation generator step by step: requests.post blocks until the  *)
(* service answers, the connection fails, or the timeout it was given      *)
(* expires.                                                                *)
(***************************************************************************)
\* Mutant: requests.post without a timeout.
TimeoutExpired_never(t) == FALSE

\* requests.post(..., timeout=10): the wait is given up after ten seconds.
TimeoutExpired(t) == t >= RequestTimeout

TimeoutOutcome == [kind |-> "Timeout", status |-> 0, body |-> NoBody]

\* What can end the wait before the timeout: a failed connection, or an
\* answer (one of each way call_azure_openai treats an answer).
EarlyOutcomes ==
    { net \in NetworkOutcomes :
        \/ net.kind = "ConnectionError"
        \/ /\ net.kind = "Response"
           /\ net.status \in {200, 503}
           /\ net.body.shape \in {"completion", "no_choices"}
           /\ net.body.content \in {None, " You may qualify.\n"} }

InitWait ==
    /\ pc = "start"
    /\ scheme \in ExplainSchemes
    /\ user_profile \in ExplainProfiles
    /\ AZURE_OPENAI_API_KEY \in Credentials
    /\ AZURE_OPENAI_ENDPOINT \in Endpoints
    /\ calls = 0
    /\ outbox = <<>>
    /\ response = NoRequest
    /\ explanation = None
    /\ match_score = None
    /\ other_scheme = None
    /\ other_profile = None
    /\ other_score = None
    /\ elapsed = 0
    /\ IdleFilter
    /\ IdleLoad
    /\ IdleApp

\* generate_eligibility_explanation is entered: without credentials it
\* returns at once, with them call_azure_openai posts its request.
BeginExplain ==
    /\ pc \in {"start", "explained"}
    /\ calls < MaxCalls
    /\ calls' = calls + 1
    /\ elapsed' = 0
    /\ response' = NoRequest
    /\ IF Configured
       THEN /\ outbox' = outbox \o
                    call_azure_openai(Prompt(scheme, user_profile), MaxTokens,
                                      NoRequest).posted
            /\ explanation' = None
            /\ match_score' = None
            /\ pc' = "waiting"
       ELSE LET r == generate_eligibility_explanation(scheme, user_profile, NoRequest)
            IN  /\ outbox' = outbox \o r.posted
                /\ explanation' = r.explanation
                /\ match_score' = r.match_score
                /\ pc' = "explained"
    /\ UNCHANGED <<scheme, user_profile, AZURE_OPENAI_API_KEY, AZURE_OPENAI_ENDPOINT,
                   other_scheme, other_profile, other_score>>
    /\ UNCHANGED <<filterVars, loadVars, appVars>>

\* A second passes and the service has not answered.
Tick ==
    /\ pc = "waiting"
    /\ ~TimeoutExpired(elapsed)
    /\ elapsed < MaxWait
    /\ elapsed' = elapsed + 1
    /\ UNCHANGED <<pc, scoreVars, filterVars, explainVars, loadVars, appVars>>

\* requests.post returns or raises with the outcome net, and the generator
\* returns what it makes of it.
Return(net) ==
    /\ LET r == generate_eligibility_explanation(scheme, user_profile, net)
       IN  /\ explanation' = r.explanation
           /\ match_score' = r.match_score
    /\ response' = net
    /\ pc' = "explained"
    /\ UNCHANGED <<scheme, user_profile, AZURE_OPENAI_API_KEY, AZURE_OPENAI_ENDPOINT,
                   calls, outbox, elapsed, other_scheme, other_profile, other_score>>
    /\ UNCHANGED <<filterVars, loadVars, appVars>>

\* The service answers, or the connection fails, before the timeout.
Answer ==
    /\ pc = "waiting"
    /\ ~TimeoutExpired(elapsed)
    /\ \E net \in EarlyOutcomes : Return(net)

\* The timeout has expired: requests.post gives the wait up.
TimeoutRaised ==
    /\ pc = "waiting"
    /\ TimeoutExpired(elapsed)
    /\ pc' = "explained"

\* requests.post raises requests.exceptions.Timeout, which the generator
\* turns into its fallback.
TimeOut == TimeoutRaised /\ Return(TimeoutOutcome)

NextWait == BeginExplain \/ Tick \/ Answer \/ TimeOut

\* Time passes, and requests gives the wait up once the timeout has expired;
\* nothing obliges the service to answer.  (TimeOut is the only step of
\* NextWait that is a TimeoutRaised step, and the two are enabled in the
\* same states, so this is weak fairness of TimeOut.)
SpecWait ==
    InitWait /\ [][NextWait]_vars /\ WF_vars(Tick) /\ WF_pc(TimeoutRaised)

\* C12: every invocation of the generator eventually returns; a request the
\* service never answers, or cannot be connected to, is given up no later
\* than the configured timeout and yields the warning-marked fallback.
C12_EventuallyReturns ==
    /\ [](pc = "waiting" => <>(pc = "explained"))
    /\ [](elapsed <= RequestTimeout)
    /\ []((pc = "explained" /\ response.kind \in {"Timeout", "ConnectionError"})
            => IsWarning(explanation))
    /\ []((pc = "explained" /\ response.kind = "Timeout")
            => elapsed = RequestTimeout)

\* The service never answered: the invocation returned at the timeout.
C12_Witness ==
    /\ pc = "explained"
    /\ response.kind = "Timeout"
    /\ elapsed = RequestTimeout
    /\ IsWarning(explanation)
    /\ Len(outbox) = 1

(***************************************************************************)
(* load_schemes: what schemes.json can hold and what the loader makes of   *)
(* it.  A JSON null is Python's None; a key an object lacks is a field the *)
(* record lacks.                                                           *)
(***************************************************************************)
WithoutKey(s, key) == [k \in DOMAIN s \ {key} |-> s[k]]

\* Records a catalog file can hold: two complete ones, one whose name is
\* null, one without a description and one without a category.
LoadRecords ==
    { Scheme(1, "PM Kisan", "Ministry of Agriculture", "Farmers",
             "Aid for women farmers", "Farmers", "Income support"),
      Scheme(2, "Ujjwala", "Ministry of Petroleum", "Households",
             "LPG connection", "Women", "Fuel for rural Women"),
      Scheme(7, None, "Ministry of Labour", "Workers",
             "Insurance cover", "Youth", "Cover for workers"),
      WithoutKey(Scheme(8, "Women Shakti", "Ministry of Women and Child", "Women",
                        "Skill training", "Women", ""), "description"),
      WithoutKey(Scheme(9, "Kisan Credit", "Ministry of Agriculture", "Farmers",
                        "Crop loans", "", "Credit for kisan"), "category") }

\* The lists of at most n distinct records of LoadRecords, in every order.
RECURSIVE RecordLists(_)
RecordLists(n) ==
    IF n = 0 THEN {<<>>}
    ELSE LET shorter == RecordLists(n - 1)
         IN  shorter \cup
             { Append(c, s) : c \in {l \in shorter : Len(l) = n - 1},
                              s \in LoadRecords }

CatalogFile(kind, keys, list) == [kind |-> kind, keys |-> keys, schemes |-> list]

\* No file; text that is not JSON; a JSON array at the top level; a JSON
\* object without a schemes key; a JSON object with one.
CatalogFiles ==
    { CatalogFile("missing", {}, <<>>),
      CatalogFile("not_json", {}, <<>>),
      CatalogFile("json_array", {}, <<>>),
      CatalogFile("json_object", {"version"}, <<>>) }
    \cup { CatalogFile("json_object", {"schemes"}, c) :
             c \in {l \in RecordLists(MaxSchemes) : DistinctIds(l)} }

\* try: open(...); data = json.load(f); return data.get('schemes', [])
\* except FileNotFoundError: st.error(...); return []
load_schemes(file) ==
    IF file.kind = "missing"
    THEN [value |-> <<>>, reported |-> TRUE, raised |-> None]
    ELSE IF file.kind = "not_json"
    THEN [value |-> None, reported |-> FALSE, raised |-> "JSONDecodeError"]
    ELSE IF file.kind # "json_object"
    THEN [value |-> None, reported |-> FALSE, raised |-> "AttributeError"]
    ELSE [value |-> IF "schemes" \in file.keys THEN file.schemes ELSE <<>>,
          reported |-> FALSE, raised |-> None]

\* The exception of the first element of a comprehension that raises one.
FirstRaised(excs) ==
    LET at == {i \in DOMAIN excs : excs[i] # None}
    IN  IF at = {} THEN None
        ELSE excs[CHOOSE i \in at : \A j \in at : i <= j]

\* s[key].lower(): KeyError without the key, AttributeError on None.
lower_raised(s, key) ==
    IF key \notin DOMAIN s THEN "KeyError"
    ELSE IF s[key] = None THEN "AttributeError"
    ELSE None

SearchedFields == <<"name", "description", "ministry", "beneficiary">>

\* The `or` chain of the search condition stops at the first field that
\* holds the text, and breaks at the first field that cannot be lowercased.
RECURSIVE search_condition_raised(_, _, _)
search_condition_raised(search_lower, s, i) ==
    IF i > Len(SearchedFields) THEN None
    ELSE LET key == SearchedFields[i]
             e == lower_raised(s, key)
         IN  IF e # None THEN e
             ELSE IF Contains(Lower(s[key]), search_lower) THEN None
             ELSE search_condition_raised(search_lower, s, i + 1)

\* s[key] == value: KeyError without the key.
equality_raised(list, key) ==
    FirstRaised([i \in 1..Len(list) |->
                    IF key \in DOMAIN list[i] THEN None ELSE "KeyError"])

\* The exception that leaves filter_schemes, None when it returns.
filter_schemes_raised(list, query, ministry, beneficiary, category) ==
    LET e1 == IF query # ""
              THEN FirstRaised([i \in 1..Len(list) |->
                       search_condition_raised(Lower(query), list[i], 1)])
              ELSE None
    IN  IF e1 # None THEN e1 ELSE
        LET f1 == filter_schemes(list, query, AllMinistries, AllTypes, AllCategories)
            e2 == IF ministry # AllMinistries
                  THEN equality_raised(f1, "ministry") ELSE None
        IN  IF e2 # None THEN e2 ELSE
        LET f2 == filter_schemes(list, query, ministry, AllTypes, AllCategories)
            e3 == IF beneficiary # AllTypes
                  THEN equality_raised(f2, "beneficiary") ELSE None
        IN  IF e3 # None THEN e3 ELSE
        LET f3 == filter_schemes(list, query, ministry, beneficiary, AllCategories)
        IN  IF category # AllCategories
            THEN equality_raised(f3, "category") ELSE None

\* f"{scheme['name']} {scheme['beneficiary']} {scheme['category']}"
calculate_match_score_raised(s) ==
    IF {"name", "beneficiary", "category"} \subseteq DOMAIN s
    THEN None ELSE "KeyError"

InitLoad ==
    /\ pc = "start"
    /\ schemes_json \in CatalogFiles
    /\ SCHEMES = None
    /\ reported = FALSE
    /\ raised = None
    /\ IdleScore
    /\ IdleFilter
    /\ IdleExplain
    /\ IdleWait
    /\ IdleApp

\* SCHEMES = load_schemes()
LoadSchemes ==
    /\ pc = "start"
    /\ LET r == load_schemes(schemes_json)
       IN  /\ SCHEMES' = r.value
           /\ reported' = r.reported
           /\ raised' = r.raised
           /\ pc' = IF r.raised = None THEN "loaded" ELSE "load_raised"
    /\ UNCHANGED <<schemes_json, scoreVars, filterVars, explainVars, waitVars, appVars>>

\* filtered_schemes = filter_schemes(SCHEMES, ...) on the loaded catalog
FilterLoaded ==
    /\ pc = "loaded"
    /\ \E q \in SearchQueries, m \in MinistryFilters,
          b \in BeneficiaryFilters, c \in CategoryFilters :
          LET e == filter_schemes_raised(SCHEMES, q, m, b, c)
          IN  /\ schemes' = SCHEMES
              /\ search_query' = q
              /\ ministry_filter' = m
              /\ beneficiary_filter' = b
              /\ category_filter' = c
              /\ raised' = e
              /\ filtered' = IF e = None
                             THEN filter_schemes(SCHEMES, q, m, b, c) ELSE None
              /\ pc' = IF e = None THEN "filtered" ELSE "filter_raised"
    /\ UNCHANGED <<schemes_json, SCHEMES, reported, refiltered,
                   scoreVars, explainVars, waitVars, appVars>>

\* calculate_match_score(scheme, user_profile) on a record of the loaded catalog
ScoreLoaded ==
    /\ pc = "loaded"
    /\ \E i \in DOMAIN SCHEMES, p \in ExplainProfiles :
          LET e == calculate_match_score_raised(SCHEMES[i])
          IN  /\ scheme' = SCHEMES[i]
              /\ user_profile' = p
              /\ raised' = e
              /\ match_score' = IF e = None
                                THEN calculate_match_score(SCHEMES[i], p) ELSE None
              /\ pc' = IF e = None THEN "scored" ELSE "score_raised"
    /\ UNCHANGED <<schemes_json, SCHEMES, reported,
                   other_scheme, other_profile, other_score,
                   filterVars, explainVars, waitVars, appVars>>

NextLoad == LoadSchemes \/ FilterLoaded \/ ScoreLoaded

SpecLoad == InitLoad /\ [][NextLoad]_vars

\* The file is missing, or its content is not a wrapper object with a
\* schemes field.
Malformed(file) ==
    \/ file.kind # "json_object"
    \/ "schemes" \notin file.keys

\* C11: loading never crashes: when schemes.json is missing or malformed,
\* load_schemes raises nothing, returns the empty catalog and reports the
\* condition.
C11_LoadNeverCrashes ==
    (pc # "start" /\ Malformed(schemes_json))
        => (raised = None /\ SCHEMES = <<>> /\ reported)

\* The fields the filter and the scorer read.
CoreFields == {"name", "ministry", "beneficiary", "benefit", "category", "description"}

WellFormed(s) == \A f \in CoreFields : f \in DOMAIN s /\ s[f] # None

\* C20: every record of a catalog load_schemes returned has a non-null
\* string in each field the core reads, and so neither filter_schemes nor
\* calculate_match_score raises on a loaded catalog.
C20_LoadedRecordsWellFormed ==
    /\ pc \notin {"filter_raised", "score_raised"}
    /\ pc \in {"loaded", "filtered", "scored"}
          => \A i \in 1..Len(SCHEMES) : WellFormed(SCHEMES[i])

(***************************************************************************)
(* The application: main() is run from top to bottom once for every user   *)
(* interaction of a browser session, and once more after st.rerun().       *)
(* Each session has its own st.session_state and widget values; the        *)
(* catalog SCHEMES is the same for all.  The language and accessibility    *)
(* settings and the page decoration take no part in what is modelled.      *)
(***************************************************************************)
Sessions == {"A", "B"}

PoolScheme(id) == CHOOSE s \in SchemePool : s.id = id

AppCatalog == <<PoolScheme(1), PoolScheme(2), PoolScheme(3)>>

\* st.session_state as lines 31-44 leave it; None stands for an absent key.
NewSession ==
    [ bookmarked_schemes |-> <<>>, expanded_schemes |-> <<>>,
      selected_category |-> None, last_user_profile |-> None ]

\* The widgets of a fresh page: empty search box, first option of each
\* selectbox, and the profile inputs.
NewWidgets(age, category, skills) ==
    [ search_input |-> "", filter_ministry |-> AllMinistries,
      filter_beneficiary |-> AllTypes, filter_category |-> AllCategories,
      age |-> age, category |-> category, skills |-> skills ]

\* The values a user gives the search box and the three selectors.
WidgetChoices ==
    [ search_input |-> {"", "kisan"},
      filter_ministry |-> {AllMinistries, "Ministry of Home"},
      filter_beneficiary |-> {AllTypes, "Citizens"},
      filter_category |-> {AllCategories, "Women"} ]

\* The category buttons a user clicks.
ClickedCategories == {"Farmers", "Women"}

\* What makes the script run: the first load of the page, a changed widget
\* value, a clicked button, or st.rerun().
Event(kind, category, id) == [kind |-> kind, category |-> category, id |-> id]

\* list.remove(x): the first occurrence goes.
RECURSIVE Remove(_, _)
Remove(list, x) ==
    IF list = <<>> THEN <<>>
    ELSE IF list[1] = x THEN Tail(list)
    ELSE <<list[1]>> \o Remove(Tail(list), x)

\* Mutant: a clicked button always appends the id to its list.
render_scheme_card_always_append(s, event, acc) ==
    LET user_profile_ == IF acc.session.last_user_profile # None
                         THEN acc.session.last_user_profile ELSE "General user"
        drawn == CHOOSE d \in
                   { [acc EXCEPT !.explain_calls = @ + 1,
                                 !.cards = Append(@, s.id),
                                 !.scores = Append(@, calculate_match_score(s, p))] :
                       p \in {user_profile_} } : TRUE
    IN  IF s.id \in Range(acc.cards)
        THEN [drawn EXCEPT !.status = "DuplicateWidgetID"]
        ELSE IF event.kind = "expand" /\ event.id = s.id
        THEN [drawn EXCEPT !.session.expanded_schemes = Append(@, s.id),
                           !.status = "rerun"]
        ELSE IF event.kind = "bookmark" /\ event.id = s.id
        THEN [drawn EXCEPT !.session.bookmarked_schemes = Append(@, s.id),
                           !.status = "rerun"]
        ELSE IF s.id \in Range(acc.session.expanded_schemes)
        THEN [drawn EXCEPT !.explain_calls = @ + 1,
                           !.explained = Append(@, s.id)]
        ELSE drawn

\* render_scheme_card, on the record acc of what the run has done so far.
\* The card is drawn with the score of generate_eligibility_explanation;
\* a second widget with the key of one already drawn stops the run; a
\* clicked button toggles its list and calls st.rerun(); an expanded card
\* calls generate_eligibility_explanation again.
render_scheme_card(s, event, acc) ==
    LET is_bookmarked == s.id \in Range(acc.session.bookmarked_schemes)
        is_expanded == s.id \in Range(acc.session.expanded_schemes)
        user_profile_ == IF acc.session.last_user_profile # None
                         THEN acc.session.last_user_profile ELSE "General user"
        drawn == CHOOSE d \in
                   { [acc EXCEPT !.explain_calls = @ + 1,
                                 !.cards = Append(@, s.id),
                                 !.scores = Append(@, calculate_match_score(s, p))] :
                       p \in {user_profile_} } : TRUE
    IN  IF s.id \in Range(acc.cards)
        THEN [drawn EXCEPT !.status = "DuplicateWidgetID"]
        ELSE IF event.kind = "expand" /\ event.id = s.id
        THEN [drawn EXCEPT !.session.expanded_schemes =
                               IF is_expanded THEN Remove(@, s.id) ELSE Append(@, s.id),
                           !.status = "rerun"]
        ELSE IF event.kind = "bookmark" /\ event.id = s.id
        THEN [drawn EXCEPT !.session.bookmarked_schemes =
                               IF is_bookmarked THEN Remove(@, s.id) ELSE Append(@, s.id),
                           !.status = "rerun"]
        ELSE IF is_expanded
        THEN [drawn EXCEPT !.explain_calls = @ + 1,
                           !.explained = Append(@, s.id)]
        ELSE drawn

\* for scheme in list: render_scheme_card(scheme, ...), until the run stops.
RECURSIVE render_cards(_, _, _, _)
render_cards(list, i, event, acc) ==
    IF i > Len(list) \/ acc.status # "running" THEN acc
    ELSE CHOOSE out \in { render_cards(list, i + 1, event, next) :
                            next \in {render_scheme_card(list[i], event, acc)} } : TRUE

\* Mutant: filter_schemes narrows the list it was passed.
schemes_after_filter_in_place(list, query, ministry, beneficiary, category) ==
    filter_schemes(list, query, ministry, beneficiary, category)

\* The list passed to filter_schemes, after the call: the function works on
\* schemes.copy() and builds new lists, so the list is as it was.
schemes_after_filter(list, query, ministry, beneficiary, category) == list

\* render_bookmarked_schemes: the cards of the bookmarked schemes, in
\* catalog order.
render_bookmarked_schemes(catalog, event, acc) ==
    IF acc.status = "running" /\ acc.session.bookmarked_schemes # <<>>
    THEN CHOOSE out \in
             { render_cards(bookmarked, 1, event, acc) :
                 bookmarked \in { SelectSeq(catalog, LAMBDA s :
                                     s.id \in Range(acc.session.bookmarked_schemes)) } } : TRUE
    ELSE acc

\* What a run leaves: the session state and the record of what it did.
RunRecord(event, criteria, filtered_schemes, acc) ==
    [ session |-> acc.session,
      run |-> [ event |-> event,
                criteria |-> criteria,
                filter_runs |-> 1,
                filtered |-> filtered_schemes,
                cards |-> acc.cards,
                scores |-> acc.scores,
                explain_calls |-> acc.explain_calls,
                explained |-> acc.explained,
                posted |-> IF Configured THEN acc.explain_calls ELSE 0,
                status |-> IF acc.status = "running" THEN "done" ELSE acc.status ] ]

\* main() from the bookmarked section on.
main_bookmarks(event, criteria, filtered_schemes, acc, catalog) ==
    CHOOSE out \in
        { RunRecord(event, criteria, filtered_schemes, done) :
            done \in {render_bookmarked_schemes(catalog, event, acc)} } : TRUE

\* main() from the display of the results on.
main_results(event, criteria, filtered_schemes, session, catalog) ==
    CHOOSE out \in
        { main_bookmarks(event, criteria, filtered_schemes, acc, catalog) :
            acc \in { render_cards(filtered_schemes, 1, event,
                          [ session |-> session, cards |-> <<>>, scores |-> <<>>,
                            explain_calls |-> 0, explained |-> <<>>,
                            status |-> "running" ]) } } : TRUE

\* main() from the call of filter_schemes on.
main_filter(event, criteria, session, catalog) ==
    CHOOSE out \in
        { main_results(event, criteria, filtered_schemes, session, catalog) :
            filtered_schemes \in
                { filter_schemes(catalog, criteria.search_query,
                      criteria.ministry_filter, criteria.beneficiary_filter,
                      criteria.category_filter) } } : TRUE

\* One run of main() for a session: the profile is stored, a clicked
\* category button stores its category, the stored category replaces the
\* selector's, filter_schemes is called, and the cards are drawn.
run_main(session, w, event, catalog) ==
    LET profile == BuildProfile(w.age, w.category, w.skills)
        s1 == [session EXCEPT !.last_user_profile = profile]
        s2 == IF event.kind = "cat_button"
              THEN [s1 EXCEPT !.selected_category = event.category] ELSE s1
        selected_category == IF s2.selected_category # None
                             THEN s2.selected_category ELSE w.filter_category
    IN  CHOOSE out \in
            { main_filter(event, criteria, started, catalog) :
                criteria \in { [ search_query |-> w.search_input,
                                 ministry_filter |-> w.filter_ministry,
                                 beneficiary_filter |-> w.filter_beneficiary,
                                 category_filter |-> selected_category ] },
                started \in {s2} } : TRUE

\* The profile inputs of each session.
ProfileInputs ==
    [ A |-> NewWidgets("30", "Farmers", ""),
      B |-> NewWidgets("62", "Women", "farmer") ]

\* Each session has loaded the page once.
InitApp ==
    /\ pc = "serving"
    /\ AZURE_OPENAI_API_KEY \in {None, "secret"}
    /\ AZURE_OPENAI_ENDPOINT = "https://example.openai.azure.com"
    /\ SCHEMES = AppCatalog
    /\ schemes_json = CatalogFile("json_object", {"schemes"}, AppCatalog)
    /\ reported = FALSE
    /\ raised = None
    /\ widgets = [s \in Sessions |-> ProfileInputs[s]]
    /\ session_state = [s \in Sessions |->
          run_main(NewSession, ProfileInputs[s], Event("load", "", 0), AppCatalog).session]
    /\ run = [s \in Sessions |->
          run_main(NewSession, ProfileInputs[s], Event("load", "", 0), AppCatalog).run]
    /\ actor = None
    /\ interactions = 0
    /\ calls = 0
    /\ outbox = <<>>
    /\ response = NoRequest
    /\ explanation = None
    /\ IdleScore
    /\ IdleFilter
    /\ IdleWait

\* The script runs for session s with the widget values w and the event.
Serve(s, w, event) ==
    /\ \E r \in {run_main(session_state[s], w, event, SCHEMES)} :
           /\ session_state' = [session_state EXCEPT ![s] = r.session]
           /\ run' = [run EXCEPT ![s] = r.run]
           /\ SCHEMES' = schemes_after_filter(SCHEMES, r.run.criteria.search_query,
                             r.run.criteria.ministry_filter,
                             r.run.criteria.beneficiary_filter,
                             r.run.criteria.category_filter)
    /\ widgets' = [widgets EXCEPT ![s] = w]
    /\ actor' = s
    /\ UNCHANGED <<pc, schemes_json, reported, raised,
                   scoreVars, filterVars, explainVars, waitVars>>

\* The buttons of the cards the last run of session s drew.
CardButtons(s) ==
    IF run[s].status = "DuplicateWidgetID"
    THEN Range(SubSeq(run[s].cards, 1, Len(run[s].cards) - 1))
    ELSE Range(run[s].cards)

Idle(s) == run[s].status # "rerun" /\ interactions < MaxInteractions

\* The user types in the search box or picks an option of a selector.
ChangeInput(s) ==
    /\ Idle(s)
    /\ \E key \in DOMAIN WidgetChoices :
          \E v \in WidgetChoices[key] \ {widgets[s][key]} :
             Serve(s, [widgets[s] EXCEPT ![key] = v], Event("input", "", 0))
    /\ interactions' = interactions + 1

\* The user clicks a category button.
ClickCategory(s) ==
    /\ Idle(s)
    /\ \E c \in ClickedCategories : Serve(s, widgets[s], Event("cat_button", c, 0))
    /\ interactions' = interactions + 1

\* The user clicks "Why I'm Eligible" on a card.
ClickExpand(s) ==
    /\ Idle(s)
    /\ \E id \in CardButtons(s) : Serve(s, widgets[s], Event("expand", "", id))
    /\ interactions' = interactions + 1

\* The user clicks the bookmark button of a card.
ClickBookmark(s) ==
    /\ Idle(s)
    /\ \E id \in CardButtons(s) : Serve(s, widgets[s], Event("bookmark", "", id))
    /\ interactions' = interactions + 1

\* st.rerun(): the script runs again at once.
Rerun(s) ==
    /\ run[s].status = "rerun"
    /\ Serve(s, widgets[s], Event("rerun", "", 0))
    /\ UNCHANGED interactions

NextApp ==
    \E s \in Sessions :
        \/ ChangeInput(s)
        \/ ClickCategory(s)
        \/ ClickExpand(s)
        \/ ClickBookmark(s)
        \/ Rerun(s)

SpecApp == InitApp /\ [][NextApp]_vars

\* C14: the run of the script that a user interaction triggers calls
\* filter_schemes once and generate_eligibility_explanation at most once,
\* however many cards it draws or finds expanded.
C14_OneFilterOneExplanation ==
    \A s \in Sessions :
        run[s].event.kind # "load"
            => (run[s].filter_runs = 1 /\ run[s].explain_calls <= 1)

\* The record of the catalog as loaded that has the given id.
Loaded(id) == AppCatalog[CHOOSE i \in 1..Len(AppCatalog) : AppCatalog[i].id = id]

\* What the last run of session s shows is what the catalog as loaded and
\* the session's own criteria and profile give.
OwnResults(s) ==
    /\ run[s].filtered =
          SelectSeq(AppCatalog, LAMBDA x :
              /\ run[s].criteria.search_query = ""
                   \/ search_condition(Lower(run[s].criteria.search_query), x)
              /\ run[s].criteria.ministry_filter \in {AllMinistries, x.ministry}
              /\ run[s].criteria.beneficiary_filter \in {AllTypes, x.beneficiary}
              /\ run[s].criteria.category_filter \in {AllCategories, x.category})
    /\ Len(run[s].scores) = Len(run[s].cards)
    /\ \A i \in 1..Len(run[s].cards) :
          run[s].scores[i] =
              ExpectedScore(Loaded(run[s].cards[i]),
                            BuildProfile(widgets[s].age, widgets[s].category,
                                         widgets[s].skills))

\* C16: the catalog is read-only: no run of any session changes SCHEMES,
\* a run of one session changes nothing of another session, and so each
\* session's filter results and scores are those the catalog as loaded
\* gives for its own criteria and profile, however the sessions interleave.
C16_CatalogReadOnly ==
    /\ [](SCHEMES = AppCatalog /\ \A s \in Sessions : OwnResults(s))
    /\ [][/\ SCHEMES' = SCHEMES
          /\ \A s \in Sessions \ {actor'} :
                /\ session_state'[s] = session_state[s]
                /\ widgets'[s] = widgets[s]
                /\ run'[s] = run[s]]_vars

\* Session A has bookmarked a scheme and its rerun is pending when session
\* B clicks a category button and is shown the one scheme of the category.
C16_Witness ==
    /\ interactions = 2
    /\ actor = "B"
    /\ session_state["A"].bookmarked_schemes = <<2>>
    /\ run["A"].status = "rerun"
    /\ run["B"].criteria.category_filter = "Farmers"
    /\ run["B"].cards = <<1>>
    /\ run["B"].scores = <<55>>
    /\ SCHEMES = AppCatalog

\* C18: the criteria a run passes to filter_schemes are the values its
\* search box and its three selectors hold in that run; nothing chosen in
\* an earlier interaction is passed in their place.
C18_CriteriaOfThisRun ==
    \A s \in Sessions :
        run[s].criteria = [ search_query |-> widgets[s].search_input,
                            ministry_filter |-> widgets[s].filter_ministry,
                            beneficiary_filter |-> widgets[s].filter_beneficiary,
                            category_filter |-> widgets[s].filter_category ]

\* The list holds no value twice.
NoDuplicates(list) ==
    \A i, j \in 1..Len(list) : list[i] = list[j] => i = j

\* The list of session state that a button of the given kind toggles.
ToggledList(session, kind) ==
    IF kind = "bookmark" THEN session.bookmarked_schemes ELSE session.expanded_schemes

\* The ids in the list after a click on the button of id toggled it.
Toggled(list, id) ==
    IF id \in Range(list) THEN Range(list) \ {id} ELSE Range(list) \cup {id}

\* Session s, with its buttons on the page, clicks the button of the given
\* kind and id, the script reruns, and, the button being drawn again, the
\* session clicks it once more: the ids of the list are those of before.
TwiceRestores(s, kind, id) ==
    \A first \in {run_main(session_state[s], widgets[s], Event(kind, "", id), SCHEMES)} :
      \A again \in {run_main(first.session, widgets[s], Event("rerun", "", 0), SCHEMES)} :
        \A second \in {run_main(again.session, widgets[s], Event(kind, "", id), SCHEMES)} :
          /\ Range(ToggledList(first.session, kind)) =
                 Toggled(ToggledList(session_state[s], kind), id)
          /\ again.session = first.session
          /\ id \in Range(again.run.cards)
                => Range(ToggledList(second.session, kind)) =
                      Range(ToggledList(session_state[s], kind))

\* C21: whatever bookmark and expand buttons the sessions have clicked, one
\* click a run, bookmarked_schemes and expanded_schemes hold no id twice; the
\* run of a click adds the id to the button's list when it was absent and
\* removes it when it was present and leaves the other list alone, any
\* other run leaves both lists alone, and a second click on the same button
\* right after the first gives back the ids the list had.
C21_ToggleKeepsSets ==
    /\ [](\A s \in Sessions :
            /\ NoDuplicates(session_state[s].bookmarked_schemes)
            /\ NoDuplicates(session_state[s].expanded_schemes)
            /\ Idle(s)
                  => \A kind \in {"bookmark", "expand"} :
                       \A id \in CardButtons(s) : TwiceRestores(s, kind, id))
    /\ [][\A s \in Sessions :
            LET e == run'[s].event
                before == session_state[s]
                after == session_state'[s]
            IN  IF s = actor' /\ e.kind = "bookmark"
                THEN /\ Range(after.bookmarked_schemes) =
                           Toggled(before.bookmarked_schemes, e.id)
                     /\ after.expanded_schemes = before.expanded_schemes
                ELSE IF s = actor' /\ e.kind = "expand"
                THEN /\ Range(after.expanded_schemes) =
                           Toggled(before.expanded_schemes, e.id)
                     /\ after.bookmarked_schemes = before.bookmarked_schemes
                ELSE /\ after.bookmarked_schemes = before.bookmarked_schemes
                     /\ after.expanded_schemes = before.expanded_schemes]_vars

\* Session A bookmarked scheme 2 and then clicked the same button again,
\* which took the scheme off the list.
C21_Witness ==
    /\ interactions = 2
    /\ actor = "A"
    /\ run["A"].event = Event("bookmark", "", 2)
    /\ run["A"].status = "rerun"
    /\ session_state["A"].bookmarked_schemes = <<>>
    /\ session_state["B"].bookmarked_schemes = <<>>
    /\ session_state["B"].expanded_schemes = <<>>
    /\ session_state["A"].expanded_schemes = <<>>

\* C22: no run draws the card of a scheme twice, so no run gives the key
\* expand_<id> or bookmark_<id> to a second widget, also when a bookmarked
\* scheme is among the filtered results.
C22_CardDrawnOnce ==
    \A s \in Sessions :
        /\ NoDuplicates(run[s].cards)
        /\ run[s].status # "DuplicateWidgetID"

=============================================================================
